---- MODULE Spec2Model ----
(***************************************************************************)
(* Model of utilities/input_placeholders.py : class ImagePatch.            *)
(*                                                                         *)
(* One ImagePatch object is modelled together with the calls made on it.   *)
(* An n-dimensional array is a record [shape, data]: shape is the tuple of *)
(* dimensions, data maps every 0-based index tuple to the element.  None   *)
(* is the record [none |-> TRUE].  spatial_rank = info_length / 2.0 is a   *)
(* float in the code; the model keeps info_length (twice the rank) so that *)
(* rank 3, 2 and 2.5 are info_length 6, 4 and 5.  The code repeats lists   *)
(* by the float np.floor(spatial_rank) and uses a float as a shape entry;  *)
(* the model reads both as the integer they denote, which is what the      *)
(* numpy the code was written for does.                                    *)
(***************************************************************************)
EXTENDS Integers, Sequences, FiniteSets, TLC

VARIABLES
    image_shape, label_shape, weight_map_shape, info_length,
    num_image_modality, num_label_modality, num_weight_map,
    image, info, label, weight_map,
    op, args, raised, ret

config == <<image_shape, label_shape, weight_map_shape, info_length,
            num_image_modality, num_label_modality, num_weight_map>>
payload == <<image, info, label, weight_map>>
\* the last call: method, arguments, exception raised ("none" if none), result
call == <<op, args, raised, ret>>
vars == <<config, payload, call>>

(***************************************************************************)
(* Bounds of the model.                                                    *)
(***************************************************************************)
\* largest configured edge length of image, label and weight map
MaxEdge == 2
\* x-extent of the source volumes handed to set_data
SrcEdge == 3

(***************************************************************************)
(* Python / numpy values.                                                  *)
(***************************************************************************)
None == [none |-> TRUE]
\* None where a shape is expected (no shape of the program is empty)
NoShape == <<>>
\* None where a size is expected
NoSize == -1

Max2(a, b) == IF a >= b THEN a ELSE b
Min2(a, b) == IF a <= b THEN a ELSE b

\* [x] * n
Repeat(x, n) == [i \in 1..n |-> x]

\* the index tuples of an array of the given shape
Axis(shape, i) == 0..(shape[i] - 1)
Indices(shape) ==
    CASE Len(shape) = 0 -> {<<>>}
      [] Len(shape) = 1 -> {<<i>> : i \in Axis(shape, 1)}
      [] Len(shape) = 2 -> Axis(shape, 1) \X Axis(shape, 2)
      [] Len(shape) = 3 -> Axis(shape, 1) \X Axis(shape, 2) \X Axis(shape, 3)
      [] Len(shape) = 4 ->
             Axis(shape, 1) \X Axis(shape, 2) \X Axis(shape, 3) \X Axis(shape, 4)

\* an array of the given shape, every element v
Full(shape, v) == [shape |-> shape, data |-> [idx \in Indices(shape) |-> v]]

\* a 1-D array holding the elements of the sequence s
Vector(s) == [shape |-> <<Len(s)>>, data |-> [idx \in Indices(<<Len(s)>>) |-> s[idx[1] + 1]]]

\* start:stop on an axis of length n (step 1): first index taken, and how many
SliceStart(start, n) == IF start < 0 THEN Max2(start + n, 0) ELSE Min2(start, n)
SliceLen(start, stop, n) == Max2(SliceStart(stop, n) - SliceStart(start, n), 0)

\* a[x0:x1, y0:y1, z0:z1, :] on a 4-D array
Slice3(a, x0, x1, y0, y1, z0, z1) ==
    LET sx == SliceStart(x0, a.shape[1])
        sy == SliceStart(y0, a.shape[2])
        sz == SliceStart(z0, a.shape[3])
        shp == <<SliceLen(x0, x1, a.shape[1]), SliceLen(y0, y1, a.shape[2]),
                 SliceLen(z0, z1, a.shape[3]), a.shape[4]>>
    IN [shape |-> shp,
        data |-> [idx \in Indices(shp) |->
                     a.data[<<sx + idx[1], sy + idx[2], sz + idx[3], idx[4]>>]]]

\* an integer index z on an axis of length n is valid for -n <= z < n
IndexOk(z, n) == -n <= z /\ z < n
IndexAt(z, n) == IF z < 0 THEN z + n ELSE z

\* a[x0:x1, y0:y1, z, :] on a 4-D array: the z axis is dropped
Slice2(a, x0, x1, y0, y1, z) ==
    LET sx == SliceStart(x0, a.shape[1])
        sy == SliceStart(y0, a.shape[2])
        sz == IndexAt(z, a.shape[3])
        shp == <<SliceLen(x0, x1, a.shape[1]), SliceLen(y0, y1, a.shape[2]),
                 a.shape[4]>>
    IN [shape |-> shp,
        data |-> [idx \in Indices(shp) |->
                     a.data[<<sx + idx[1], sy + idx[2], sz, idx[3]>>]]]

(***************************************************************************)
(* Derived properties of the patch.                                        *)
(***************************************************************************)
\* has_labels that forgets the modality count
has_labels_any_modality == label_shape # NoShape

has_labels == label_shape # NoShape /\ num_label_modality > 0

has_weight_maps == weight_map_shape # NoShape /\ num_weight_map > 0

\* set(shape).pop() of a shape whose entries are all equal
image_size == image_shape[1]

label_size == IF has_labels THEN label_shape[1] ELSE NoSize

weight_map_size == IF has_weight_maps THEN weight_map_shape[1] ELSE NoSize

\* np.floor(spatial_rank)
num_window == info_length \div 2

full_image_shape == Repeat(image_size, num_window) \o <<num_image_modality>>

full_label_shape ==
    IF has_labels THEN Repeat(label_size, num_window) \o <<num_label_modality>>
    ELSE NoShape

full_weight_map_shape ==
    IF has_weight_maps THEN Repeat(weight_map_size, num_window) \o <<num_weight_map>>
    ELSE NoShape

\* [1 + spatial_rank * 2]
full_info_shape == <<1 + info_length>>

\* -1 * np.ones(full_info_shape)
stopping_signal == Full(full_info_shape, -1)

(***************************************************************************)
(* The patch as a value: the four payload fields and the exception raised  *)
(* so far.  A method is a function from the patch before to the patch      *)
(* after; once an exception is raised the remaining statements do nothing. *)
(***************************************************************************)
Self == [image |-> image, info |-> info, label |-> label,
         weight_map |-> weight_map, raised |-> "none"]

Raise(p, exception) == [p EXCEPT !.raised = exception]

\* the image setter without its shape assertion
image_setter_unchecked(p, value) ==
    IF p.raised # "none" THEN p
    ELSE IF value = None THEN Raise(p, "AttributeError")
    ELSE [p EXCEPT !.image = value]

image_setter(p, value) ==
    IF p.raised # "none" THEN p
    ELSE IF value = None THEN Raise(p, "AttributeError")
    ELSE IF value.shape # full_image_shape THEN Raise(p, "AssertionError")
    ELSE [p EXCEPT !.image = value]

info_setter(p, value) ==
    IF p.raised # "none" THEN p
    ELSE IF value = None THEN Raise(p, "AttributeError")
    ELSE IF value.shape # full_info_shape THEN Raise(p, "AssertionError")
    ELSE [p EXCEPT !.info = value]

label_setter(p, value) ==
    IF p.raised # "none" THEN p
    ELSE IF ~has_labels THEN Raise(p, "AssertionError")
    ELSE IF value = None THEN Raise(p, "AttributeError")
    ELSE IF value.shape # full_label_shape THEN Raise(p, "AssertionError")
    ELSE [p EXCEPT !.label = value]

\* the weight_map setter storing into _label
weight_map_setter_into_label(p, value) ==
    IF p.raised # "none" THEN p
    ELSE IF ~has_weight_maps THEN Raise(p, "AssertionError")
    ELSE IF value = None THEN Raise(p, "AttributeError")
    ELSE IF value.shape # full_weight_map_shape THEN Raise(p, "AssertionError")
    ELSE [p EXCEPT !.label = value]

weight_map_setter(p, value) ==
    IF p.raised # "none" THEN p
    ELSE IF ~has_weight_maps THEN Raise(p, "AssertionError")
    ELSE IF value = None THEN Raise(p, "AttributeError")
    ELSE IF value.shape # full_weight_map_shape THEN Raise(p, "AssertionError")
    ELSE [p EXCEPT !.weight_map = value]

(***************************************************************************)
(* set_data.  img, seg and w_map are None or image-like objects; Data(v)   *)
(* is the 4-D array v.data.                                                *)
(***************************************************************************)
Data(v) ==
    [shape |-> v.shape,
     data |-> [idx \in Indices(v.shape) |->
                  v.tag * 10000 + idx[1] * 1000 + idx[2] * 100 + idx[3] * 10 + idx[4]]]

\* the rank-3 image slice taking the x bounds for y
set_data_image3_x_for_y(p, loc, img) ==
    IF p.raised # "none" THEN p
    ELSE IF loc[4] > Data(img).shape[1] THEN Raise(p, "AssertionError")
    ELSE IF loc[5] > Data(img).shape[2] THEN Raise(p, "AssertionError")
    ELSE IF loc[6] > Data(img).shape[3] THEN Raise(p, "AssertionError")
    ELSE image_setter(p, Slice3(Data(img), loc[1], loc[4], loc[1], loc[4], loc[3], loc[6]))

\* spatial_rank == 3: lines 249-253
set_data_image3(p, loc, img) ==
    IF p.raised # "none" THEN p
    ELSE IF loc[4] > Data(img).shape[1] THEN Raise(p, "AssertionError")
    ELSE IF loc[5] > Data(img).shape[2] THEN Raise(p, "AssertionError")
    ELSE IF loc[6] > Data(img).shape[3] THEN Raise(p, "AssertionError")
    ELSE image_setter(p, Slice3(Data(img), loc[1], loc[4], loc[2], loc[5], loc[3], loc[6]))

\* the rank-3 label slice starting at the image start, not shifted by diff
set_data_label3_unshifted(p, loc, seg) ==
    IF p.raised # "none" THEN p
    ELSE IF ~(has_labels /\ seg # None) THEN p
    ELSE LET diff == image_size - label_size
         IN IF diff < 0 THEN Raise(p, "AssertionError")
            ELSE label_setter(p, Slice3(Data(seg), loc[1], label_size + loc[1],
                                        loc[2], label_size + loc[2],
                                        loc[3], label_size + loc[3]))

\* lines 254-261
set_data_label3(p, loc, seg) ==
    IF p.raised # "none" THEN p
    ELSE IF ~(has_labels /\ seg # None) THEN p
    ELSE LET diff == image_size - label_size
             x_d == loc[1] + diff
             y_d == loc[2] + diff
             z_d == loc[3] + diff
         IN IF diff < 0 THEN Raise(p, "AssertionError")
            ELSE label_setter(p, Slice3(Data(seg), x_d, label_size + x_d,
                                        y_d, label_size + y_d,
                                        z_d, label_size + z_d))

\* lines 263-270
set_data_weight_map3(p, loc, w_map) ==
    IF p.raised # "none" THEN p
    ELSE IF ~(has_weight_maps /\ w_map # None) THEN p
    ELSE LET diff == image_size - weight_map_size
             x_d == loc[1] + diff
             y_d == loc[2] + diff
             z_d == loc[3] + diff
         IN IF diff < 0 THEN Raise(p, "AssertionError")
            ELSE weight_map_setter(p, Slice3(Data(w_map), x_d, weight_map_size + x_d,
                                             y_d, weight_map_size + y_d,
                                             z_d, weight_map_size + z_d))

\* spatial_rank == 2: lines 273-276
set_data_image2(p, loc, img) ==
    IF p.raised # "none" THEN p
    ELSE IF loc[3] > Data(img).shape[1] THEN Raise(p, "AssertionError")
    ELSE IF loc[4] > Data(img).shape[2] THEN Raise(p, "AssertionError")
    ELSE IF ~IndexOk(0, Data(img).shape[3]) THEN Raise(p, "IndexError")
    ELSE image_setter(p, Slice2(Data(img), loc[1], loc[3], loc[2], loc[4], 0))

\* lines 277-283
set_data_label2(p, loc, seg) ==
    IF p.raised # "none" THEN p
    ELSE IF ~(has_labels /\ seg # None) THEN p
    ELSE LET diff == image_size - label_size
             x_d == loc[1] + diff
             y_d == loc[2] + diff
         IN IF diff < 0 THEN Raise(p, "AssertionError")
            ELSE IF ~IndexOk(0, Data(seg).shape[3]) THEN Raise(p, "IndexError")
            ELSE label_setter(p, Slice2(Data(seg), x_d, label_size + x_d,
                                        y_d, label_size + y_d, 0))

\* lines 285-291
set_data_weight_map2(p, loc, w_map) ==
    IF p.raised # "none" THEN p
    ELSE IF ~(has_weight_maps /\ w_map # None) THEN p
    ELSE LET diff == image_size - weight_map_size
             x_d == loc[1] + diff
             y_d == loc[2] + diff
         IN IF diff < 0 THEN Raise(p, "AssertionError")
            ELSE IF ~IndexOk(0, Data(w_map).shape[3]) THEN Raise(p, "IndexError")
            ELSE weight_map_setter(p, Slice2(Data(w_map), x_d, weight_map_size + x_d,
                                             y_d, weight_map_size + y_d, 0))

\* spatial_rank == 2.5: lines 294-298
set_data_image25(p, loc, img) ==
    IF p.raised # "none" THEN p
    ELSE IF loc[4] > Data(img).shape[1] THEN Raise(p, "AssertionError")
    ELSE IF loc[5] > Data(img).shape[2] THEN Raise(p, "AssertionError")
    ELSE IF ~(loc[3] < Data(img).shape[3]) THEN Raise(p, "AssertionError")
    ELSE IF ~IndexOk(loc[3], Data(img).shape[3]) THEN Raise(p, "IndexError")
    ELSE image_setter(p, Slice2(Data(img), loc[1], loc[4], loc[2], loc[5], loc[3]))

\* the rank-2.5 label slice taken from the plane 0, as the rank-2 branch does
set_data_label25_first_plane(p, loc, seg) ==
    IF p.raised # "none" THEN p
    ELSE IF ~(has_labels /\ seg # None) THEN p
    ELSE LET diff == image_size - label_size
             x_d == loc[1] + diff
             y_d == loc[2] + diff
         IN IF diff < 0 THEN Raise(p, "AssertionError")
            ELSE IF ~IndexOk(0, Data(seg).shape[3]) THEN Raise(p, "IndexError")
            ELSE label_setter(p, Slice2(Data(seg), x_d, label_size + x_d,
                                        y_d, label_size + y_d, 0))

\* lines 299-306
set_data_label25(p, loc, seg) ==
    IF p.raised # "none" THEN p
    ELSE IF ~(has_labels /\ seg # None) THEN p
    ELSE LET diff == image_size - label_size
             x_d == loc[1] + diff
             y_d == loc[2] + diff
         IN IF diff < 0 THEN Raise(p, "AssertionError")
            ELSE IF ~IndexOk(loc[3], Data(seg).shape[3]) THEN Raise(p, "IndexError")
            ELSE label_setter(p, Slice2(Data(seg), x_d, label_size + x_d,
                                        y_d, label_size + y_d, loc[3]))

\* lines 308-315
set_data_weight_map25(p, loc, w_map) ==
    IF p.raised # "none" THEN p
    ELSE IF ~(has_weight_maps /\ w_map # None) THEN p
    ELSE LET diff == image_size - weight_map_size
             x_d == loc[1] + diff
             y_d == loc[2] + diff
         IN IF diff < 0 THEN Raise(p, "AssertionError")
            ELSE IF ~IndexOk(loc[3], Data(w_map).shape[3]) THEN Raise(p, "IndexError")
            ELSE weight_map_setter(p, Slice2(Data(w_map), x_d, weight_map_size + x_d,
                                             y_d, weight_map_size + y_d, loc[3]))

\* lines 244-246: info is assigned first, then img is checked
set_data_info(p, subject_id, spatial_loc, img) ==
    LET p1 == info_setter(p, Vector(<<subject_id>> \o spatial_loc))
    IN IF p1.raised # "none" THEN p1
       ELSE IF img = None THEN Raise(p1, "AssertionError")
       ELSE p1

set_data(p, subject_id, spatial_loc, img, seg, w_map) ==
    LET p1 == set_data_info(p, subject_id, spatial_loc, img)
    IN IF info_length = 6
       THEN set_data_weight_map3(
                set_data_label3(set_data_image3(p1, spatial_loc, img), spatial_loc, seg),
                spatial_loc, w_map)
       ELSE IF info_length = 4
       THEN set_data_weight_map2(
                set_data_label2(set_data_image2(p1, spatial_loc, img), spatial_loc, seg),
                spatial_loc, w_map)
       ELSE IF info_length = 5
       THEN set_data_weight_map25(
                set_data_label25(set_data_image25(p1, spatial_loc, img), spatial_loc, seg),
                spatial_loc, w_map)
       ELSE p1

(***************************************************************************)
(* The other methods.                                                      *)
(***************************************************************************)
image_dtype == "float32"
label_dtype == "int64"
weight_map_dtype == "float32"

\* tf.placeholder(dtype, shape, name)
placeholder(dtype, shape, name) == [dtype |-> dtype, shape |-> shape, name |-> name]

create_placeholders ==
    <<placeholder(image_dtype, full_image_shape, "images"),
      placeholder("int64", full_info_shape, "info")>>
    \o (IF has_labels
        THEN <<placeholder(label_dtype, full_label_shape, "labels")>> ELSE <<>>)
    \o (IF has_weight_maps
        THEN <<placeholder(weight_map_dtype, full_weight_map_shape, "weightmaps")>>
        ELSE <<>>)

\* the list as_dict builds through the getters; each getter asserts its field is set
out_list ==
    <<image, info>> \o (IF has_labels THEN <<label>> ELSE <<>>)
                    \o (IF has_weight_maps THEN <<weight_map>> ELSE <<>>)

\* as_dict without the assertion on len(placeholders)
as_dict_raises_any_length(placeholders) ==
    IF \E i \in 1..Len(out_list) : out_list[i] = None THEN "AssertionError"
    ELSE "none"

\* the exception as_dict raises, or "none"
as_dict_raises(placeholders) ==
    IF \E i \in 1..Len(out_list) : out_list[i] = None THEN "AssertionError"
    ELSE IF Len(out_list) # Len(placeholders) THEN "AssertionError"
    ELSE "none"

\* {placeholders: tuple(out_list)}
as_dict(placeholders) == [k \in {placeholders} |-> out_list]

\* is_stopping_signal with np.any for np.all
is_stopping_signal_any(value) ==
    IF value.shape = stopping_signal.shape
    THEN \E idx \in Indices(value.shape) : value.data[idx] = stopping_signal.data[idx]
    ELSE IF value.shape = <<1>>
    THEN \E idx \in Indices(stopping_signal.shape) :
             value.data[<<0>>] = stopping_signal.data[idx]
    ELSE FALSE

\* np.all(value == self.stopping_signal) for a 1-D array: numpy broadcasts a
\* one-element array against the sentinel, and the comparison of two shapes
\* that do not broadcast is False
is_stopping_signal(value) ==
    IF value.shape = stopping_signal.shape
    THEN \A idx \in Indices(value.shape) : value.data[idx] = stopping_signal.data[idx]
    ELSE IF value.shape = <<1>>
    THEN \A idx \in Indices(stopping_signal.shape) :
             value.data[<<0>>] = stopping_signal.data[idx]
    ELSE FALSE

fill_with_stopping_info(p) == info_setter(p, stopping_signal)

(***************************************************************************)
(* The inputs the calls are made with.                                     *)
(***************************************************************************)
InfoLengths == {4, 5, 6}
ModalityCounts == {0, 1}
SubjectIds == {7}

EdgeShapes(n) == {Repeat(e, n) : e \in 1..MaxEdge}

\* <<label_shape, num_label_modality, weight_map_shape, num_weight_map>> of the
\* constructor: neither optional array, one of them (with or without modalities),
\* or both with the shape of the image
OptionalArrays(n, shape) ==
    {<<NoShape, 1, NoShape, 1>>, <<shape, 1, shape, 1>>}
    \cup {<<s, m, NoShape, 1>> : s \in EdgeShapes(n), m \in ModalityCounts}
    \cup {<<NoShape, 1, s, m>> : s \in EdgeShapes(n), m \in ModalityCounts}

\* An image-like object is the volume [tag, shape]; the element of its .data at
\* idx names the volume and the position (see Data).
Volume(tag, shape) == [tag |-> tag, shape |-> shape]

Channels(n) == IF n > 0 THEN n ELSE 1
SrcShape(ch) == <<SrcEdge, SrcEdge + 1, SrcEdge + 2, ch>>
SmallShape(ch) == <<SrcEdge - 1, SrcEdge + 1, SrcEdge + 2, ch>>
Img == Volume(1, SrcShape(num_image_modality))
Seg == Volume(2, SrcShape(Channels(num_label_modality)))
SmallSeg == Volume(2, SmallShape(Channels(num_label_modality)))
WMap == Volume(3, SrcShape(Channels(num_weight_map)))

\* the shape an optional array has by the configuration, whatever has_* says
ConfiguredShape(shape, modalities) ==
    IF shape = NoShape THEN {} ELSE {Repeat(shape[1], num_window) \o <<modalities>>}

ArgShapes ==
    {full_image_shape, full_info_shape}
    \cup ConfiguredShape(label_shape, num_label_modality)
    \cup ConfiguredShape(weight_map_shape, num_weight_map)

Arrays == {None} \cup {Full(shape, 0) : shape \in ArgShapes}

\* a location inside every source, and one that leaves the small segmentation
Origin == Repeat(0, (info_length + 1) \div 2) \o Repeat(image_size, info_length \div 2)
Offset ==
    IF info_length = 4 THEN <<1, 2, 1 + image_size, 2 + image_size>>
    ELSE <<1, 2, 3, 1 + image_size, 2 + image_size>>
         \o (IF info_length = 6 THEN <<3 + image_size>> ELSE <<>>)

\* spatial_loc: starts then ends; x, y, z are the extents of the image source
Locations ==
    LET L == image_size
        X == SrcEdge
        Y == SrcEdge + 1
        Z == SrcEdge + 2
    IN IF info_length = 6
       THEN {<<0, 0, 0, L, L, L>>, <<1, 2, 3, 1 + L, 2 + L, 3 + L>>,
             <<X - L + 1, 0, 0, X + 1, L, L>>, <<0, Y - L + 1, 0, L, Y + 1, L>>,
             <<0, 0, Z - L + 1, L, L, Z + 1>>,
             <<0, 0, 0, L + 1, L, L>>,
             <<-L, 0, 0, X, L, L>>,
             <<-(L + 1), -(L + 1), -(L + 1), X - 1, Y - 1, Z - 1>>,
             <<-1, 0, 0, L - 1, L, L>>}
       ELSE IF info_length = 4
       THEN {<<0, 0, L, L>>, <<1, 2, 1 + L, 2 + L>>,
             <<X - L + 1, 0, X + 1, L>>, <<0, Y - L + 1, L, Y + 1>>,
             <<0, 0, L, L + 1>>,
             <<0, -L, L, Y>>,
             <<-(L + 1), -(L + 1), X - 1, Y - 1>>,
             <<0, -1, L, L - 1>>}
       ELSE {<<0, 0, 0, L, L>>, <<1, 2, 3, 1 + L, 2 + L>>,
             <<X - L + 1, 0, 0, X + 1, L>>, <<0, Y - L + 1, 0, L, Y + 1>>,
             <<0, 0, Z, L, L>>, <<0, 0, Z - 1, L, L>>,
             <<0, 0, 0, L + 1, L>>,
             <<-L, 0, -1, X, L>>,
             <<-(L + 1), -(L + 1), -Z, X - 1, Y - 1>>,
             <<0, 0, -(Z + 1), L, L>>,
             <<-1, 0, 0, L - 1, L>>}

\* the placeholder tuples as_dict is called with: create_placeholders' tuple,
\* shorter ones and longer ones
PlaceholderTuples ==
    LET all == <<placeholder(image_dtype, full_image_shape, "images"),
                 placeholder("int64", full_info_shape, "info"),
                 placeholder(label_dtype, full_label_shape, "labels"),
                 placeholder(weight_map_dtype, full_weight_map_shape, "weightmaps"),
                 placeholder("int64", <<1>>, "extra")>>
    IN {create_placeholders} \cup {SubSeq(all, 1, k) : k \in 1..5}

InfoArguments ==
    {None, info, stopping_signal, Vector(<<-1>>), Vector(<<-1, -1>>),
     [stopping_signal EXCEPT !.data[<<info_length>>] = 7]}

(***************************************************************************)
(* The state machine: the constructor, then any call in any order.         *)
(***************************************************************************)
Init ==
    /\ info_length \in InfoLengths
    /\ image_shape \in EdgeShapes(info_length \div 2)
    /\ num_image_modality = 1
    /\ \E o \in OptionalArrays(info_length \div 2, image_shape) :
           /\ label_shape = o[1] /\ num_label_modality = o[2]
           /\ weight_map_shape = o[3] /\ num_weight_map = o[4]
    /\ image = None /\ info = None /\ label = None /\ weight_map = None
    /\ op = "__init__" /\ args = <<>> /\ raised = "none" /\ ret = None

\* the call leaves the patch as p says and returns None
Returns(name, arguments, p) ==
    /\ image' = p.image /\ info' = p.info
    /\ label' = p.label /\ weight_map' = p.weight_map
    /\ op' = name /\ args' = arguments /\ raised' = p.raised /\ ret' = None
    /\ UNCHANGED config

\* a call that reads only: it raises the exception, or returns value
Reads(name, arguments, exception, value) ==
    /\ op' = name /\ args' = arguments /\ raised' = exception
    /\ ret' = IF exception = "none" THEN value ELSE None
    /\ UNCHANGED <<config, payload>>

SetImage(value) == Returns("image.setter", <<value>>, image_setter(Self, value))
SetInfo(value) == Returns("info.setter", <<value>>, info_setter(Self, value))
SetLabel(value) == Returns("label.setter", <<value>>, label_setter(Self, value))
SetWeightMap(value) == Returns("weight_map.setter", <<value>>, weight_map_setter(Self, value))

GetImage == Reads("image", <<>>, IF image = None THEN "AssertionError" ELSE "none", image)
GetInfo == Reads("info", <<>>, IF info = None THEN "AssertionError" ELSE "none", info)
GetLabel == Reads("label", <<>>, IF label = None THEN "AssertionError" ELSE "none", label)
GetWeightMap ==
    Reads("weight_map", <<>>, IF weight_map = None THEN "AssertionError" ELSE "none", weight_map)

SetData(subject_id, spatial_loc, img, seg, w_map) ==
    Returns("set_data", <<subject_id, spatial_loc, img, seg, w_map>>,
            set_data(Self, subject_id, spatial_loc, img, seg, w_map))

CreatePlaceholders == Reads("create_placeholders", <<>>, "none", create_placeholders)

AsDict(placeholders) ==
    Reads("as_dict", <<placeholders>>, as_dict_raises(placeholders), as_dict(placeholders))

FillWithStoppingInfo ==
    Returns("fill_with_stopping_info", <<>>, fill_with_stopping_info(Self))

IsStoppingSignal(value) ==
    Reads("is_stopping_signal", <<value>>, IF value = None THEN "ValueError" ELSE "none",
          IF value = None THEN None ELSE is_stopping_signal(value))

Next ==
    \/ \E value \in Arrays : SetImage(value)
    \/ \E value \in Arrays : SetInfo(value)
    \/ \E value \in Arrays : SetLabel(value)
    \/ \E value \in Arrays : SetWeightMap(value)
    \/ GetImage
    \/ GetInfo
    \/ GetLabel
    \/ GetWeightMap
    \/ \E subject_id \in SubjectIds, img \in {None, Img}, seg \in {None, Seg},
          w_map \in {None, WMap} : SetData(subject_id, Origin, img, seg, w_map)
    \/ CreatePlaceholders
    \/ \E placeholders \in PlaceholderTuples : AsDict(placeholders)
    \/ FillWithStoppingInfo
    \/ \E value \in InfoArguments : IsStoppingSignal(value)

Spec == Init /\ [][Next]_vars

\* set_data alone, at every location of Locations
NextData ==
    \/ \E subject_id \in SubjectIds, spatial_loc \in Locations :
           SetData(subject_id, spatial_loc, Img, None, None)
    \/ \E subject_id \in SubjectIds, spatial_loc \in Locations, seg \in {Seg, SmallSeg} :
           SetData(subject_id, spatial_loc, Img, seg, WMap)
    \/ \E subject_id \in SubjectIds : SetData(subject_id, Origin, None, Seg, WMap)

SpecData == Init /\ [][NextData]_vars

(***************************************************************************)
(* Vocabulary of the properties.                                           *)
(***************************************************************************)
Ok == raised = "none"

\* the optional features as the constructor's arguments give them
LabelsConfigured == label_shape # NoShape /\ num_label_modality > 0
WeightMapsConfigured == weight_map_shape # NoShape /\ num_weight_map > 0

\* edge repeated floor(rank) times, then the channel count
ShapeOf(edge, channels) ==
    [i \in 1..(info_length \div 2 + 1) |->
        IF i <= info_length \div 2 THEN edge ELSE channels]

\* what an assignment of value to a field must do: it succeeds exactly when the
\* field is enabled and value has the shape; the field then holds value, and
\* otherwise what it held before
Assigns(value, enabled, shape, before, after) ==
    LET fits == enabled /\ value # None /\ value.shape = shape
    IN /\ (raised' = "none") <=> fits
       /\ after = IF fits THEN value ELSE before

\* C1: a field setter succeeds exactly when the array has the derived full shape
\* of the field (and, for label and weight_map, the feature is enabled); the
\* field then holds the array and its getter returns it; after a failed
\* assignment the field holds what it held before.
C1_SetterContract ==
    [][/\ op' = "image.setter" =>
              Assigns(args'[1], TRUE, ShapeOf(image_shape[1], num_image_modality),
                      image, image')
       /\ op' = "info.setter" =>
              Assigns(args'[1], TRUE, <<1 + info_length>>, info, info')
       /\ op' = "label.setter" =>
              Assigns(args'[1], LabelsConfigured,
                      ShapeOf(label_shape[1], num_label_modality), label, label')
       /\ op' = "weight_map.setter" =>
              Assigns(args'[1], WeightMapsConfigured,
                      ShapeOf(weight_map_shape[1], num_weight_map),
                      weight_map, weight_map')
       /\ (op' = "image" /\ image # None) => (raised' = "none" /\ ret' = image)
       /\ (op' = "info" /\ info # None) => (raised' = "none" /\ ret' = info)
       /\ (op' = "label" /\ label # None) => (raised' = "none" /\ ret' = label)
       /\ (op' = "weight_map" /\ weight_map # None) =>
              (raised' = "none" /\ ret' = weight_map)]_vars

\* a failed assignment to a label that was set before: the label is still set
C1_Witness ==
    op = "label.setter" /\ ~Ok /\ LabelsConfigured /\ label # None /\ args[1] # None

\* C9: label is populated only if labels are enabled, weight_map only if weight
\* maps are enabled; reading label or weight_map with the feature disabled
\* fails, and so does reading any field that is not set.
C9_OptionalFields ==
    /\ label # None => LabelsConfigured
    /\ weight_map # None => WeightMapsConfigured
    /\ (op = "label" /\ ~LabelsConfigured) => raised = "AssertionError"
    /\ (op = "weight_map" /\ ~WeightMapsConfigured) => raised = "AssertionError"
    /\ (op = "image" /\ image = None) => raised = "AssertionError"
    /\ (op = "info" /\ info = None) => raised = "AssertionError"
    /\ (op = "label" /\ label = None) => raised = "AssertionError"
    /\ (op = "weight_map" /\ weight_map = None) => raised = "AssertionError"

\* the label is read on a patch whose label shape is configured with no modality
C9_Witness ==
    op = "label" /\ label_shape # NoShape /\ num_label_modality = 0 /\ ~Ok

\* the arrays a complete patch holds, in the order image, info, label?, weight_map?
Populated ==
    <<image, info>> \o (IF LabelsConfigured THEN <<label>> ELSE <<>>)
                    \o (IF WeightMapsConfigured THEN <<weight_map>> ELSE <<>>)

PlaceholderNames ==
    <<"images", "info">> \o (IF LabelsConfigured THEN <<"labels">> ELSE <<>>)
                         \o (IF WeightMapsConfigured THEN <<"weightmaps">> ELSE <<>>)

\* what create_placeholders and as_dict leave, as a predicate of the state after
PlaceholdersContract ==
    /\ op = "create_placeholders" =>
           /\ Ok
           /\ Len(ret) = Len(PlaceholderNames)
           /\ \A i \in 1..Len(ret) : ret[i].name = PlaceholderNames[i]
    /\ op = "as_dict" =>
           LET complete == /\ \A i \in 1..Len(Populated) : Populated[i] # None
                           /\ Len(args[1]) = Len(Populated)
           IN /\ Ok <=> complete
              /\ complete => (DOMAIN ret = {args[1]} /\ ret[args[1]] = Populated)

\* C6: create_placeholders returns 2 + [has_labels] + [has_weight_maps] entries in
\* the order image, info, label?, weight_map?; as_dict(placeholders) succeeds
\* exactly when every expected field is set and len(placeholders) is that count,
\* then returns the one-entry mapping from placeholders to the stored arrays;
\* it changes no field.
C6_Placeholders ==
    [][/\ PlaceholdersContract'
       /\ op' \in {"create_placeholders", "as_dict"} => payload' = payload]_vars

\* as_dict succeeds on a patch with labels and weight maps
C6_Witness == op = "as_dict" /\ Ok /\ Len(args[1]) = 4 /\ Len(create_placeholders) = 4

\* the sentinel: 1 + 2 * rank elements, each -1
AllMinusOne ==
    [shape |-> <<1 + info_length>>, data |-> [idx \in {<<i>> : i \in 0..info_length} |-> -1]]

\* C7: after fill_with_stopping_info info is the sentinel and is_stopping_signal
\* of it is true; is_stopping_signal is false for every array with an element
\* other than -1, so for the info of a successful set_data; is_stopping_signal(None)
\* raises ValueError.
C7_StoppingSignal ==
    /\ op = "fill_with_stopping_info" => (Ok /\ info = AllMinusOne)
    /\ op = "is_stopping_signal" =>
           IF args[1] = None THEN raised = "ValueError"
           ELSE /\ Ok
                /\ args[1] = AllMinusOne => ret = TRUE
                /\ (\E idx \in DOMAIN args[1].data : args[1].data[idx] # -1) => ret = FALSE
    /\ (op = "set_data" /\ Ok) => ~is_stopping_signal(info)

\* the info that fill_with_stopping_info left on a patch holding an image is
\* recognised as the stopping signal
C7_Witness ==
    /\ op = "is_stopping_signal" /\ Ok /\ ret = TRUE
    /\ image # None /\ info = AllMinusOne /\ args[1] = info

\* C8 as claimed: a field that is set is never given another value.
C8_SetOnce ==
    [][/\ image # None => image' = image
       /\ info # None => info' = info
       /\ label # None => label' = label
       /\ weight_map # None => weight_map' = weight_map]_vars

\* C8 as amended: a field that is set stays set, and a field changes only in a
\* call of its own setter (which succeeds), of set_data or, for info, of
\* fill_with_stopping_info: every such assignment replaces the value.
C8_Reassignable ==
    [][/\ image # None => image' # None
       /\ info # None => info' # None
       /\ label # None => label' # None
       /\ weight_map # None => weight_map' # None
       /\ image' # image =>
              (op' = "set_data" \/ (op' = "image.setter" /\ Ok' /\ image' = args'[1]))
       /\ info' # info =>
              \/ op' = "set_data"
              \/ op' = "info.setter" /\ Ok' /\ info' = args'[1]
              \/ op' = "fill_with_stopping_info" /\ Ok' /\ info' = AllMinusOne
       /\ label' # label =>
              (op' = "set_data" \/ (op' = "label.setter" /\ Ok' /\ label' = args'[1]))
       /\ weight_map' # weight_map =>
              \/ op' = "set_data"
              \/ op' = "weight_map.setter" /\ Ok' /\ weight_map' = args'[1]]_vars

\* fill_with_stopping_info has replaced the info that set_data stored with the image
C8_Witness ==
    /\ op = "fill_with_stopping_info" /\ Ok /\ info = AllMinusOne
    /\ image # None /\ \E idx \in DOMAIN image.data : image.data[idx] # 0

(***************************************************************************)
(* set_data.  The arguments of the call are args = <<subject_id,           *)
(* spatial_loc, img, seg, w_map>>.  a[x0:x1] is read as Python reads it:   *)
(* it starts at x0, or at x0 + len(a) when x0 is negative.                 *)
(***************************************************************************)
SetDataOk == op = "set_data" /\ Ok
Edge == image_shape[1]

\* the block of the given shape cut from the volume v at start <<x, y, z>>
Block(v, shape, start) ==
    [shape |-> shape,
     data |-> [idx \in Indices(shape) |->
                  Data(v).data[<<SliceStart(start[1], v.shape[1]) + idx[1],
                                 SliceStart(start[2], v.shape[2]) + idx[2],
                                 SliceStart(start[3], v.shape[3]) + idx[3],
                                 idx[4]>>]]]

\* the plane z of the volume v, cut to shape from <<x, y>>
Plane(v, shape, start, z) ==
    [shape |-> shape,
     data |-> [idx \in Indices(shape) |->
                  Data(v).data[<<SliceStart(start[1], v.shape[1]) + idx[1],
                                 SliceStart(start[2], v.shape[2]) + idx[2],
                                 IF z < 0 THEN z + v.shape[3] ELSE z,
                                 idx[3]>>]]]

Shifted(loc, n, diff) == [i \in 1..n |-> loc[i] + diff]

\* C2: with rank 3, a set_data that succeeds leaves info = [subject_id] + the six
\* bounds and image = img[x0:x1, y0:y1, z0:z1, :] of shape (L, L, L, C).
C2_Rank3Image ==
    (SetDataOk /\ info_length = 6) =>
        /\ info = Vector(<<args[1]>> \o args[2])
        /\ image = Block(args[3], <<Edge, Edge, Edge, num_image_modality>>, args[2])

\* subject 7, bounds (0,0,0,2,2,2) on a (3,4,5,1) source: image (2,2,2,1)
C2_Witness ==
    /\ SetDataOk /\ info_length = 6 /\ args[1] = 7 /\ args[2] = <<0, 0, 0, 2, 2, 2>>
    /\ image.shape = <<2, 2, 2, 1>> /\ info = Vector(<<7, 0, 0, 0, 2, 2, 2>>)

\* what set_data does to an optional field: source is the volume handed in,
\* size the configured edge, channels the configured channel count
OptionalBlock(enabled, source, size, channels, before, after) ==
    IF enabled /\ source # None
    THEN /\ Edge - size < 0 => raised' # "none"
         /\ (raised' = "none" /\ info_length = 6) =>
                after = Block(source, <<size, size, size, channels>>,
                              Shifted(args'[2], 3, Edge - size))
         /\ (raised' = "none" /\ info_length = 4) =>
                after = Plane(source, <<size, size, channels>>,
                              Shifted(args'[2], 2, Edge - size), 0)
    ELSE after = before

\* C3: with labels (weight maps) enabled and a source given, set_data fails when
\* diff = image_size - target_size < 0, and otherwise stores the target_size
\* block of the source at the image start shifted by diff in x, y, z (rank 3),
\* or in x, y on the plane z = 0 (rank 2); with the feature disabled or no
\* source, the field is left unchanged.
C3_LabelBlock ==
    [][op' = "set_data" =>
          /\ OptionalBlock(LabelsConfigured, args'[4], label_shape[1],
                           num_label_modality, label, label')
          /\ OptionalBlock(WeightMapsConfigured, args'[5], weight_map_shape[1],
                           num_weight_map, weight_map, weight_map')]_vars

\* a label smaller than the image is stored by a rank-3 set_data
C3_Witness ==
    /\ SetDataOk /\ info_length = 6 /\ LabelsConfigured /\ args[4] # None
    /\ label_shape[1] < Edge /\ label.shape[1] = label_shape[1]

\* C4: with rank 2.5 set_data fails unless x1 <= X, y1 <= Y and z0 < Z; when it
\* succeeds image = img[x0:x1, y0:y1, z0, :] of shape (L, L, C), info =
\* [subject_id] + the five bounds, and a stored label or weight map is the
\* plane z0 of its source, shifted by diff in x and y only.
C4_Rank25 ==
    (SetDataOk /\ info_length = 5) =>
        LET loc == args[2]
        IN /\ loc[4] <= args[3].shape[1]
           /\ loc[5] <= args[3].shape[2]
           /\ loc[3] < args[3].shape[3]
           /\ info = Vector(<<args[1]>> \o loc)
           /\ image = Plane(args[3], <<Edge, Edge, num_image_modality>>, loc, loc[3])
           /\ (LabelsConfigured /\ args[4] # None) =>
                  label = Plane(args[4],
                                <<label_shape[1], label_shape[1], num_label_modality>>,
                                Shifted(loc, 2, Edge - label_shape[1]), loc[3])
           /\ (WeightMapsConfigured /\ args[5] # None) =>
                  weight_map = Plane(args[5],
                                     <<weight_map_shape[1], weight_map_shape[1],
                                       num_weight_map>>,
                                     Shifted(loc, 2, Edge - weight_map_shape[1]), loc[3])

\* a rank-2.5 set_data off the first plane stores a shifted label
C4_Witness ==
    /\ SetDataOk /\ info_length = 5 /\ args[2][3] > 0
    /\ LabelsConfigured /\ args[4] # None /\ label_shape[1] < Edge

\* C5 as claimed: every set_data that stores an image has every start >= 0 and
\* every end <= the source dimension.
C5_InsideSource ==
    SetDataOk =>
        LET loc == args[2]
            starts == (info_length + 1) \div 2
        IN /\ \A i \in 1..starts : loc[i] >= 0
           /\ \A i \in 1..(info_length \div 2) : loc[starts + i] <= args[3].shape[i]

\* C10 as claimed: a set_data that fails leaves info, image, label, weight_map
\* as they were.
C10_AllOrNothing ==
    [][(op' = "set_data" /\ raised' # "none") => payload' = payload]_vars

====
